---------------------------- MODULE Spec2Model ----------------------------
(***************************************************************************)
(* A model of serialdevice.py (class SerialDevice) and of multimeter.py    *)
(* (class Multimeter, which extends it): one device object, the pySerial   *)
(* port object it holds, and the bytes the instrument has sent to it.      *)
(*                                                                         *)
(* Every method of the device is one action: the whole call, from entry to *)
(* return or raise.  The variable "call" records what the call that has    *)
(* just returned did (arguments, state before, primitives of the port it   *)
(* called, Frame, return value, exception that escaped), until the caller  *)
(* takes the result (Return) and makes its next call.                      *)
(*                                                                         *)
(* Optional values (Python's None) are sequences of length at most one:    *)
(* <<>> is None and <<x>> is the value x.                                  *)
(* Bytes are integers 0..255; text is a sequence of one-character names.   *)
(***************************************************************************)
EXTENDS Integers, Sequences, FiniteSets, TLC

\* ------------------------------------------------------------- bounds
\* Longest stream of bytes buffered by the port.
MaxStream == 3
\* Largest max_size argument handed to read().
MaxSize == 2

\* ---------------------------------------------------------- constants
\* serial.LF, the default terminator of read(), and the carriage return.
LF == 10
CR == 13
\* The default max_size of read(), _read_until() and _readline().
DefaultMaxSize == 1000
\* SerialDevice.__init__: baud_rate, read_mode.
DefaultBaud == 19200
DefaultReadMode == 1
\* SerialDevice.__init__: timeout, write_timeout (seconds).
DefaultTimeout == 2
DefaultWriteTimeout == 2

None == <<>>
Some(x) == <<x>>

\* The bytes the instrument may send: LF, CR, ';' and 0xFF (which is not
\* valid in any UTF-8 text).
Byte == {LF, CR, 59, 255}
\* The terminators a caller configures: LF (the default), CR LF, and ';'.
Terminators == {<<LF>>, <<CR, LF>>, <<59>>}
\* The COM port numbers a caller passes in connection_info[0].
Ports == {5, 6}
\* The mode argument of read(): None (use self.read_mode) or a strategy.
ModeArgs == {None} \cup {Some(m) : m \in 1..4}
\* The command strings a caller writes.
Msgs == {<<";", "\n">>, <<";">>}
\* The bytes the multimeter may send: those of Byte and the digit '1'.
DmmByte == Byte \cup {49}
\* The baud argument of Multimeter(address, baud).
Bauds == {DefaultBaud, 9600}
\* The scale argument of get_DCVolts(): None or a number.
Scales == {None, Some(1)}

\* Exceptions.  "none" stands for the absence of one.
NoExc == "none"
\* What serial.Serial(...) raises when the port cannot be acquired.
OpenFaults == {"ValueError", "SerialException"}
\* What port.write() raises.
WriteFaults == {"PortNotOpenError", "SerialException", "SerialTimeoutException", "AttributeError"}
\* What port.read(1), port.inWaiting(), port.readline() and
\* port.read_until() raise.
ReadFaults == {"PortNotOpenError", "SerialException", "AttributeError"}

\* pySerial's hierarchy: PortNotOpenError and SerialTimeoutException are
\* SerialExceptions, and SerialException is an IOError.
IsSerialException(e) == e \in {"SerialException", "SerialTimeoutException", "PortNotOpenError"}
IsIOError(e) == IsSerialException(e) \/ e = "OSError"

VARIABLES
  port,       \* self.port: None, or the serial.Serial object held
  port_num,   \* self.port_num: None or a port number
  baud_rate,  \* self.baud_rate
  read_mode,  \* self.read_mode
  timeout,    \* self.timeout
  write_timeout,  \* self.write_timeout
  rx,         \* the bytes buffered by the open port, oldest first
  leaked,     \* Serial objects the device dropped while they were open
  call        \* the call that has just returned

vars == <<port, port_num, baud_rate, read_mode, timeout, write_timeout, rx, leaked, call>>

\* What write() and read() hand back when they have not been called.  fault
\* is what the port raised inside the method, exc what the method let escape;
\* io lists the primitives of the port the method called; written is what
\* port.write() was given and sent; frame is the Frame of read() and rx what
\* the port still buffers after it.
NoWrite == [fault |-> NoExc, exc |-> NoExc, io |-> <<>>, written |-> <<>>]
NoRead ==
  [ret |-> None, exc |-> NoExc, frame |-> <<>>, rx |-> <<>>, io |-> <<>>,
   mode |-> 0, fault |-> NoExc]

\* The record of "no call has just returned".  op is the method; n, baud,
\* msg, terminator, max_size and mode its arguments; fault the outcome of
\* serial.Serial(...) in open_port; pre_port and pre_rx the port object
\* and the buffered bytes before the call; w and r what write() and read()
\* did inside it; steps the calls made by query(), in order; response what
\* query() returned inside get_ID() or get_DCVolts(); ret the value returned and exc the
\* exception that escaped to the caller.
NoCall ==
  [op |-> "none", n |-> None, baud |-> None, msg |-> <<>>, terminator |-> <<>>,
   max_size |-> 0, mode |-> None, fault |-> NoExc, pre_port |-> None, pre_rx |-> <<>>, w |-> NoWrite, r |-> NoRead,
   steps |-> <<>>, response |-> None, ret |-> None, exc |-> NoExc]

\* --------------------------------------------------------------- text
\* bytes.decode(encoding='UTF-8') on the bytes of Byte: every byte below 128
\* is one ASCII character; 0xFF starts no UTF-8 sequence, and decode raises
\* UnicodeDecodeError.
Decodable(bytes) == \A i \in 1..Len(bytes) : bytes[i] < 128
Chr(b) == IF b = LF THEN "\n" ELSE IF b = CR THEN "\r" ELSE IF b = 49 THEN "1" ELSE ";"
Decode(bytes) == [i \in 1..Len(bytes) |-> Chr(bytes[i])]
\* str.encode(encoding='UTF-8') on the characters of the commands: each is
\* ASCII and becomes the one byte of its code.
Ascii ==
  ("\n" :> LF) @@ ("\r" :> CR) @@ (" " :> 32) @@ ("*" :> 42) @@ ("1" :> 49) @@
  ("I" :> 73) @@ ("N" :> 78) @@ (":" :> 58) @@
  (";" :> 59) @@ ("?" :> 63) @@ ("A" :> 65) @@ ("C" :> 67) @@ ("D" :> 68) @@
  ("E" :> 69) @@ ("L" :> 76) @@ ("M" :> 77) @@ ("O" :> 79) @@ ("S" :> 83) @@
  ("T" :> 84) @@ ("V" :> 86)
Ord(c) == Ascii[c]
Encode(text) == [i \in 1..Len(text) |-> Ord(text[i])]

\* str.strip('\r\n'): drops every leading and every trailing character that
\* is a carriage return or a line feed.
RECURSIVE LStrip(_)
LStrip(text) ==
  IF text # <<>> /\ Head(text) \in {"\r", "\n"} THEN LStrip(Tail(text)) ELSE text
RECURSIVE RStrip(_)
RStrip(text) ==
  IF text # <<>> /\ text[Len(text)] \in {"\r", "\n"}
  THEN RStrip(SubSeq(text, 1, Len(text) - 1))
  ELSE text
\* A strip that drops leading characters only.
Strip_leading(text) == LStrip(text)

Strip(text) == RStrip(LStrip(text))

\* float(s) on a str of the characters above.  Whitespace at both ends is
\* ignored; of what is left, only a run of digits is a number here (the
\* alphabet has no sign, point or exponent), and anything else, the empty
\* string included, raises ValueError.
RECURSIVE LTrim(_)
LTrim(text) ==
  IF text # <<>> /\ Head(text) \in {" ", "\r", "\n"} THEN LTrim(Tail(text)) ELSE text
RECURSIVE RTrim(_)
RTrim(text) ==
  IF text # <<>> /\ text[Len(text)] \in {" ", "\r", "\n"}
  THEN RTrim(SubSeq(text, 1, Len(text) - 1))
  ELSE text
IsDecimal(text) == text # <<>> /\ \A i \in 1..Len(text) : text[i] = "1"
RECURSIVE DecimalValue(_)
DecimalValue(text) ==
  IF text = <<>> THEN 0
  ELSE 10 * DecimalValue(SubSeq(text, 1, Len(text) - 1)) + 1
float(s) ==
  LET t == RTrim(LTrim(s))
  IN  IF IsDecimal(t)
      THEN [ret |-> Some(DecimalValue(t)), exc |-> NoExc]
      ELSE [ret |-> None, exc |-> "ValueError"]
\* str(scale) of a number written with the digit 1 only.
RECURSIVE str(_)
str(n) == IF n < 10 THEN <<"1">> ELSE Append(str(n \div 10), "1")

\* Python's line[-n:]: the last n bytes, the whole of a shorter line, and
\* the whole line when n = 0.
LastN(line, n) ==
  IF n = 0 \/ n >= Len(line) THEN line ELSE SubSeq(line, Len(line) - n + 1, Len(line))

\* ------------------------------------------------------- byte readers
\* The state of one reading pass: the Frame so far, the count of its bytes,
\* the bytes still buffered by the port, the primitives of the port called,
\* and the exception raised (NoExc when none).
\* The transport of a pass is described by (fault, at): when fault is an
\* exception, every primitive called once the port has delivered at bytes in
\* this pass raises it; with fault = NoExc the transport never fails.
Pass(buf) == [line |-> <<>>, count |-> 0, rx |-> buf, io |-> <<>>, exc |-> NoExc]
Fails(s, fault, at) == fault # NoExc /\ s.count >= at

\* A _read_until without the test of count against max_size.
RECURSIVE read_until_loop_unbounded(_, _, _, _, _)
read_until_loop_unbounded(s, terminator, max_size, fault, at) ==
  IF Fails(s, fault, at)
  THEN [s EXCEPT !.exc = fault, !.io = Append(@, "read")]
  ELSE IF s.rx = <<>>
  THEN [s EXCEPT !.io = Append(@, "read")]
  ELSE LET t == [s EXCEPT !.line = Append(@, Head(s.rx)), !.count = @ + 1,
                          !.rx = Tail(@), !.io = Append(@, "read")]
       IN  IF LastN(t.line, Len(terminator)) = terminator THEN t
           ELSE read_until_loop_unbounded(t, terminator, max_size, fault, at)

\* SerialDevice._read_until: the loop body, from c = self.port.read(1).
\* port.read(1) on an empty buffer returns b'' after the read timeout.
\* max_size is a number here, so "max_size is not None" is true.
RECURSIVE read_until_loop(_, _, _, _, _)
read_until_loop(s, terminator, max_size, fault, at) ==
  IF Fails(s, fault, at)
  THEN [s EXCEPT !.exc = fault, !.io = Append(@, "read")]
  ELSE IF s.rx = <<>>
  THEN [s EXCEPT !.io = Append(@, "read")]
  ELSE LET t == [s EXCEPT !.line = Append(@, Head(s.rx)), !.count = @ + 1,
                          !.rx = Tail(@), !.io = Append(@, "read")]
       IN  IF LastN(t.line, Len(terminator)) = terminator THEN t
           ELSE IF t.count >= max_size THEN t
           ELSE read_until_loop(t, terminator, max_size, fault, at)

_read_until(buf, terminator, max_size, fault, at) ==
  read_until_loop(Pass(buf), terminator, max_size, fault, at)

\* A _readline that reads as _read_until does: port.read(1) without asking
\* inWaiting() first.
readline_loop_blocking(s, terminator, max_size, fault, at) ==
  read_until_loop(s, terminator, max_size, fault, at)

\* SerialDevice._readline: the loop, from the test self.port.inWaiting() > 0.
\* An exception of either primitive is logged and raised again.  After
\* inWaiting() > 0 the port has a byte, so port.read(1) returns it and the
\* "read timeout" branch is not taken.
RECURSIVE readline_loop(_, _, _, _, _)
readline_loop(s, terminator, max_size, fault, at) ==
  IF Fails(s, fault, at)
  THEN [s EXCEPT !.exc = fault, !.io = Append(@, "inWaiting")]
  ELSE IF ~(Len(s.rx) > 0)
  THEN [s EXCEPT !.io = Append(@, "inWaiting")]
  ELSE LET t == [s EXCEPT !.line = Append(@, Head(s.rx)), !.count = @ + 1,
                          !.rx = Tail(@), !.io = @ \o <<"inWaiting", "read">>]
       IN  IF LastN(t.line, Len(terminator)) = terminator THEN t
           ELSE IF t.count > max_size THEN t
           ELSE readline_loop(t, terminator, max_size, fault, at)

\* A _readline that takes all the port has buffered in one read, as in
\* c = self.port.read(self.port.inWaiting()).
_readline_chunk(buf, terminator, max_size, fault, at) ==
  IF fault # NoExc THEN [Pass(buf) EXCEPT !.exc = fault, !.io = <<"inWaiting">>]
  ELSE IF buf = <<>> THEN [Pass(buf) EXCEPT !.io = <<"inWaiting">>]
  ELSE [Pass(buf) EXCEPT !.line = buf, !.count = 1, !.rx = <<>>,
                         !.io = <<"inWaiting", "read", "inWaiting">>]

_readline(buf, terminator, max_size, fault, at) ==
  readline_loop(Pass(buf), terminator, max_size, fault, at)

\* pySerial's port.read_until(terminator, max_size), which _read_until copies:
\* one primitive for the device, the same loop inside.
port_read_until(buf, terminator, max_size, fault, at) ==
  LET r == read_until_loop(Pass(buf), terminator, max_size, fault, at)
  IN  [r EXCEPT !.io = <<"read_until">>]

\* pySerial's port.readline(max_size) (io.IOBase.readline): reads single
\* bytes until a line feed, max_size bytes or a read timeout.  It knows no
\* terminator but the line feed.
RECURSIVE port_readline_loop(_, _, _, _)
port_readline_loop(s, max_size, fault, at) ==
  IF ~(s.count < max_size) THEN s
  ELSE IF Fails(s, fault, at) THEN [s EXCEPT !.exc = fault]
  ELSE IF s.rx = <<>> THEN s
  ELSE LET t == [s EXCEPT !.line = Append(@, Head(s.rx)), !.count = @ + 1,
                          !.rx = Tail(@)]
       IN  IF LastN(t.line, 1) = <<LF>> THEN t
           ELSE port_readline_loop(t, max_size, fault, at)

port_readline(buf, max_size, fault, at) ==
  LET r == port_readline_loop(Pass(buf), max_size, fault, at)
  IN  [r EXCEPT !.io = <<"readline">>]


\* ------------------------------------------------------------ methods
\* An is_open() that does not ask the port object.
is_open_exists(p) == p # None

\* SerialDevice.is_open, of the port object p held in self.port.
is_open(p) == p # None /\ p[1].is_open

\* A close_port() that returns before port.close().
close_port_skipped(p) == p

\* SerialDevice.close_port: self.port after the call.  None has no close
\* attribute; a Serial object is closed by port.close() (a second close of
\* it changes nothing).
close_port(p) == IF p = None THEN None ELSE Some([p[1] EXCEPT !.is_open = FALSE])

\* serial.Serial(port="COM" + str(n), baudrate=self.baud_rate, ...): the
\* object a successful constructor returns.
Serial(n, baud) == [is_open |-> TRUE, port |-> n, baudrate |-> baud]

\* An open_port() without the call of close_port() at its start.
open_port_no_close(p, n, baud, outcome) ==
  IF outcome = "ok"
  THEN [port |-> Some(Serial(n, baud)), exc |-> NoExc,
        dropped_open |-> IF p # None /\ p[1].is_open THEN 1 ELSE 0]
  ELSE [port |-> p, exc |-> outcome, dropped_open |-> 0]

\* SerialDevice.open_port with connection_info[0] = n, when
\* serial.Serial(...) ends with outcome ("ok" or what it raises): self.port
\* after the call, the exception that escapes (each except clause ends in
\* raise e), and the number of Serial objects that the assignment to
\* self.port dropped while they were still open.
open_port(p, n, baud, outcome) ==
  LET closed == close_port(p)
  IN  IF outcome = "ok"
      THEN [port |-> Some(Serial(n, baud)), exc |-> NoExc,
            dropped_open |-> IF closed # None /\ closed[1].is_open THEN 1 ELSE 0]
      ELSE [port |-> closed, exc |-> outcome, dropped_open |-> 0]

\* A write() whose except clauses log and do not raise.
write_except_swallow(e) == NoExc

\* The except clauses of SerialDevice.write (PortNotOpenError,
\* SerialException, Exception): each logs and ends in raise e.
write_except(e) == e

\* A write() without the is_open() test at its start.
write_unguarded(p, msg, fault) ==
  IF fault # NoExc
  THEN [fault |-> fault, exc |-> fault, io |-> <<"write">>, written |-> <<>>]
  ELSE [fault |-> NoExc, exc |-> NoExc, io |-> <<"write">>, written |-> Encode(msg)]

\* SerialDevice.write(msg), with port.write() raising fault.
write(p, msg, fault) ==
  IF ~is_open(p) THEN NoWrite
  ELSE IF fault # NoExc
  THEN [fault |-> fault, exc |-> write_except(fault), io |-> <<"write">>, written |-> <<>>]
  ELSE [fault |-> NoExc, exc |-> NoExc, io |-> <<"write">>, written |-> Encode(msg)]

\* A read() without the except clause for SerialException.
read_catches_not_open_only(e) == e \in {"PortNotOpenError", "AttributeError"}

\* The except clauses of SerialDevice.read: PortNotOpenError,
\* SerialException, (IOError, AttributeError); each returns None.
read_catches(e) == IsSerialException(e) \/ IsIOError(e) \/ e = "AttributeError"

\* The else clause of SerialDevice.read: decode the Frame and strip it.
read_decode(frame) ==
  IF Decodable(frame)
  THEN [ret |-> Some(Strip(Decode(frame))), exc |-> NoExc]
  ELSE [ret |-> None, exc |-> "UnicodeDecodeError"]

\* SerialDevice.read(terminator, max_size, mode) on the port object p with
\* buf buffered, under the transport (fault, at).
read(p, buf, self_read_mode, terminator, max_size, mode_arg, fault, at) ==
  LET mode == IF mode_arg = None THEN self_read_mode ELSE mode_arg[1]
  IN  IF ~is_open(p) THEN [NoRead EXCEPT !.rx = buf, !.mode = mode]
      ELSE
        LET s == IF mode = 1 THEN port_readline(buf, max_size, fault, at)
                 ELSE IF mode = 2 THEN port_read_until(buf, terminator, max_size, fault, at)
                 ELSE IF mode = 3 THEN _read_until(buf, terminator, max_size, fault, at)
                 ELSE _readline(buf, terminator, max_size, fault, at)
            d == read_decode(s.line)
            out == [ret |-> None, exc |-> NoExc, frame |-> s.line, rx |-> s.rx,
                    io |-> s.io, mode |-> mode, fault |-> s.exc]
        IN  IF s.exc # NoExc
            THEN IF read_catches(s.exc) THEN out ELSE [out EXCEPT !.exc = s.exc]
            ELSE [out EXCEPT !.ret = d.ret, !.exc = d.exc]

\* A read() that keeps the mode of the call in self.read_mode.
read_mode_after_override(self_read_mode, mode_arg) ==
  IF mode_arg = None THEN self_read_mode ELSE mode_arg[1]

\* self.read_mode after read(terminator, max_size, mode): "mode =
\* self.read_mode" assigns the local of the call; nothing in read() assigns
\* an attribute of the device.
read_mode_after(self_read_mode, mode_arg) == self_read_mode

\* Multimeter.query(cmd): the state of its loop.  finished and response
\* are its two locals; steps lists the calls made so far; w and r are what
\* the last write() and read() did; returned says the method has ended, with
\* ret returned or exc raised.
QueryStart(buf) ==
  [finished |-> FALSE, response |-> None, steps |-> <<>>, w |-> NoWrite,
   r |-> NoRead, rx |-> buf, returned |-> FALSE, ret |-> None, exc |-> NoExc]

\* A query() whose except clauses all end in raise e.
query_except_raise(q, e) == [q EXCEPT !.returned = TRUE, !.exc = e]

\* What the except clauses of query() do with the exception e: a
\* SerialException (a SerialTimeoutException is one) ends the method with
\* return "", anything else is raised again.
query_except(q, e) ==
  IF IsSerialException(e)
  THEN [q EXCEPT !.returned = TRUE, !.ret = Some(<<>>)]
  ELSE [q EXCEPT !.returned = TRUE, !.exc = e]

\* A query() that tries once more when read() returned None.
query_loop_retry(q, p, self_read_mode, cmd, wfault, rfault, at) ==
  LET w == write(p, cmd, wfault)
      qw == [q EXCEPT !.steps = Append(@, "write"), !.w = w]
      r == read(p, q.rx, self_read_mode, <<LF>>, DefaultMaxSize, None, rfault, at)
      qr == [qw EXCEPT !.steps = @ \o <<"sleep", "read">>, !.r = r, !.rx = r.rx]
      r2 == read(p, r.rx, self_read_mode, <<LF>>, DefaultMaxSize, None, rfault, at)
      qr2 == [qr EXCEPT !.steps = @ \o <<"write", "sleep", "read">>, !.r = r2, !.rx = r2.rx]
  IN  IF w.exc # NoExc THEN query_except(qw, w.exc)
      ELSE IF r.exc # NoExc THEN query_except(qr, r.exc)
      ELSE IF r.ret # None THEN [qr EXCEPT !.returned = TRUE, !.ret = r.ret]
      ELSE IF r2.exc # NoExc THEN query_except(qr2, r2.exc)
      ELSE [qr2 EXCEPT !.returned = TRUE, !.ret = r2.ret]

\* while not finished: write(cmd); time.sleep(read_delay); response =
\* read(); finished = True.  read() is called with its defaults: the LF
\* terminator, max_size 1000, the configured read_mode.
RECURSIVE query_loop(_, _, _, _, _, _, _)
query_loop(q, p, self_read_mode, cmd, wfault, rfault, at) ==
  IF q.finished THEN [q EXCEPT !.returned = TRUE, !.ret = q.response]
  ELSE
    LET w == write(p, cmd, wfault)
        qw == [q EXCEPT !.steps = Append(@, "write"), !.w = w]
        r == read(p, q.rx, self_read_mode, <<LF>>, DefaultMaxSize, None, rfault, at)
        qr == [qw EXCEPT !.steps = @ \o <<"sleep", "read">>, !.r = r, !.rx = r.rx]
    IN  IF w.exc # NoExc THEN query_except(qw, w.exc)
        ELSE IF r.exc # NoExc THEN query_except(qr, r.exc)
        ELSE query_loop([qr EXCEPT !.response = r.ret, !.finished = TRUE],
                        p, self_read_mode, cmd, wfault, rfault, at)

query(p, buf, self_read_mode, cmd, wfault, rfault, at) ==
  query_loop(QueryStart(buf), p, self_read_mode, cmd, wfault, rfault, at)

\* The call self.open_port(*args).  open_port has the one parameter
\* connection_info: a call with any other number of arguments raises
\* TypeError before the body runs.  With one argument the body runs with
\* connection_info[0] = args[1][1].
call_open_port(args, p, baud, outcome) ==
  IF Len(args) # 1
  THEN [port |-> p, exc |-> "TypeError", dropped_open |-> 0]
  ELSE open_port(p, args[1][1], baud, outcome)

\* Multimeter.__init__(address, baud), when serial.Serial(...) would end
\* with outcome: SerialDevice.__init__ sets the defaults, then port_num and
\* baud_rate are assigned, then self.open_port() is called, without an
\* argument.  The attributes of the new object and the exception that
\* escapes the constructor.
Multimeter_init(address, baud, outcome) ==
  LET o == call_open_port(<<>>, None, baud, outcome)
  IN  [port |-> o.port, port_num |-> Some(address), baud_rate |-> baud,
       read_mode |-> DefaultReadMode, timeout |-> DefaultTimeout,
       write_timeout |-> DefaultWriteTimeout, exc |-> o.exc]

\* Multimeter.ID_QUERY.
ID_QUERY == <<"*", "I", "D", "N", "?", "\n">>

\* Multimeter.get_ID from the return of query(ID_QUERY) on: q is what query
\* did, and s what it returned.  The except clauses around query() return
\* None for a serial fault and raise anything else again.  The logging
\* statement "response is " + s raises TypeError when s is None.
get_ID_result(q, cmd) ==
  LET out == [q |-> q, cmd |-> cmd, s |-> q.ret, ret |-> None, exc |-> NoExc]
  IN  IF q.exc # NoExc
      THEN IF IsSerialException(q.exc) THEN out ELSE [out EXCEPT !.exc = q.exc]
      ELSE IF q.ret = None THEN [out EXCEPT !.exc = "TypeError"]
      ELSE [out EXCEPT !.ret = q.ret]

\* Multimeter.get_ID().
get_ID(p, buf, self_read_mode, wfault, rfault, at) ==
  get_ID_result(query(p, buf, self_read_mode, ID_QUERY, wfault, rfault, at), ID_QUERY)

\* A get_DCVolts() without the except clause for ValueError.
get_DCVolts_except_raise(out, e) == [out EXCEPT !.exc = e]

\* try: f = float(s) / except ValueError: return None.
get_DCVolts_except(out, e) ==
  IF e = "ValueError" THEN out ELSE [out EXCEPT !.exc = e]

\* The command get_DCVolts(scale) builds.
DCVoltsCmd(scale) ==
  <<"M", "E", "A", "S", ":", "V", "O", "L", "T", ":", "D", "C", "?", " ">>
    \o (IF scale # None THEN str(scale[1]) ELSE <<>>) \o <<"\n">>

\* Multimeter.get_DCVolts from the return of query(cmd) on: q is what
\* query did, and s what it returned.  The except clauses around query()
\* return None for a serial fault and raise anything else again.  The
\* logging statement "response is " + s raises TypeError when s is None.
\* Then float(s).
get_DCVolts_result(q, cmd) ==
  LET out == [q |-> q, cmd |-> cmd, s |-> q.ret, ret |-> None, exc |-> NoExc]
  IN  IF q.exc # NoExc
      THEN IF IsSerialException(q.exc) THEN out ELSE [out EXCEPT !.exc = q.exc]
      ELSE IF q.ret = None THEN [out EXCEPT !.exc = "TypeError"]
      ELSE IF float(q.ret[1]).exc # NoExc
      THEN get_DCVolts_except(out, float(q.ret[1]).exc)
      ELSE [out EXCEPT !.ret = float(q.ret[1]).ret]

\* Multimeter.get_DCVolts(scale): build the command, query, convert.
get_DCVolts(p, buf, self_read_mode, scale, wfault, rfault, at) ==
  get_DCVolts_result(query(p, buf, self_read_mode, DCVoltsCmd(scale), wfault, rfault, at),
                     DCVoltsCmd(scale))

\* ------------------------------------------------------------ actions
\* The caller makes its next call once it holds no pending result.
Idle == call = NoCall

Init ==
  /\ port = None
  /\ port_num = None
  /\ baud_rate = DefaultBaud
  /\ read_mode = DefaultReadMode
  /\ timeout = DefaultTimeout
  /\ write_timeout = DefaultWriteTimeout
  /\ rx = <<>>
  /\ leaked = 0
  /\ Idle

\* dut.open_port([n]).  Closing a port discards what it had buffered, and a
\* new port starts with nothing buffered.
OpenPort(n, outcome) ==
  LET o == open_port(port, n, baud_rate, outcome)
  IN  /\ Idle
      /\ port' = o.port
      /\ port_num' = Some(n)
      /\ leaked' = leaked + o.dropped_open
      /\ rx' = <<>>
      /\ call' = [NoCall EXCEPT !.op = "open_port", !.n = Some(n), !.pre_port = port,
                                !.pre_rx = rx, !.fault = outcome, !.exc = o.exc]
      /\ UNCHANGED <<baud_rate, read_mode, timeout, write_timeout>>

\* dut.close_port().
ClosePort ==
  /\ Idle
  /\ port' = close_port(port)
  /\ rx' = <<>>
  /\ call' = [NoCall EXCEPT !.op = "close_port", !.pre_port = port, !.pre_rx = rx]
  /\ UNCHANGED <<port_num, baud_rate, read_mode, timeout, write_timeout, leaked>>

\* dut.write(msg), with port.write() raising fault (NoExc: it succeeds).
Write(msg, fault) ==
  LET w == write(port, msg, fault)
  IN  /\ Idle
      /\ call' = [NoCall EXCEPT !.op = "write", !.msg = msg, !.pre_port = port,
                                !.pre_rx = rx, !.w = w, !.exc = w.exc]
      /\ UNCHANGED <<port, port_num, baud_rate, read_mode, timeout, write_timeout, rx, leaked>>

\* dut.read(terminator, max_size, mode) under the transport (fault, at).
Read(terminator, max_size, mode_arg, fault, at) ==
  LET r == read(port, rx, read_mode, terminator, max_size, mode_arg, fault, at)
  IN  /\ Idle
      /\ rx' = r.rx
      /\ read_mode' = read_mode_after(read_mode, mode_arg)
      /\ call' = [NoCall EXCEPT !.op = "read", !.terminator = terminator,
                                !.max_size = max_size, !.mode = mode_arg,
                                !.pre_port = port, !.pre_rx = rx, !.r = r,
                                !.ret = r.ret, !.exc = r.exc]
      /\ UNCHANGED <<port, port_num, baud_rate, timeout, write_timeout, leaked>>

\* dmm.query(cmd), with port.write() raising wfault and the reading pass
\* under the transport (rfault, at).  What the instrument answers during the
\* settle delay is what Receive has buffered before the call.
Query(cmd, wfault, rfault, at) ==
  LET q == query(port, rx, read_mode, cmd, wfault, rfault, at)
  IN  /\ Idle
      /\ rx' = q.rx
      /\ call' = [NoCall EXCEPT !.op = "query", !.msg = cmd, !.pre_port = port,
                                !.pre_rx = rx, !.w = q.w, !.r = q.r,
                                !.steps = q.steps, !.ret = q.ret, !.exc = q.exc]
      /\ UNCHANGED <<port, port_num, baud_rate, read_mode, timeout, write_timeout, leaked>>

\* dmm = Multimeter(address, baud).  When the constructor returns, the
\* caller holds the new device, whose port has nothing buffered; when it
\* raises, the new object is lost and the caller holds what it held.
NewMultimeter(address, baud, outcome) ==
  /\ Idle
  /\ \E d \in {Multimeter_init(address, baud, outcome)} :
      /\ call' = [NoCall EXCEPT !.op = "Multimeter", !.n = Some(address),
                                !.baud = Some(baud), !.pre_port = port, !.pre_rx = rx,
                                !.fault = outcome, !.exc = d.exc]
      /\ IF d.exc = NoExc
         THEN /\ port' = d.port
              /\ port_num' = d.port_num
              /\ baud_rate' = d.baud_rate
              /\ read_mode' = d.read_mode
              /\ timeout' = d.timeout
              /\ write_timeout' = d.write_timeout
              /\ rx' = <<>>
         ELSE UNCHANGED <<port, port_num, baud_rate, read_mode, timeout,
                          write_timeout, rx>>
      /\ UNCHANGED leaked

\* dmm.get_ID(), under the transport of Query.
GetID(wfault, rfault, at) ==
  /\ Idle
  /\ \E g \in {get_ID(port, rx, read_mode, wfault, rfault, at)} :
      /\ rx' = g.q.rx
      /\ call' = [NoCall EXCEPT !.op = "get_ID", !.msg = g.cmd, !.pre_port = port,
                                !.pre_rx = rx, !.w = g.q.w, !.r = g.q.r,
                                !.steps = g.q.steps, !.response = g.s,
                                !.ret = g.ret, !.exc = g.exc]
      /\ UNCHANGED <<port, port_num, baud_rate, read_mode, timeout, write_timeout, leaked>>

\* dmm.get_DCVolts(scale), under the transport of Query.
GetDCVolts(scale, wfault, rfault, at) ==
  /\ Idle
  /\ \E g \in {get_DCVolts(port, rx, read_mode, scale, wfault, rfault, at)} :
      /\ rx' = g.q.rx
      /\ call' = [NoCall EXCEPT !.op = "get_DCVolts", !.msg = g.cmd, !.pre_port = port,
                                !.pre_rx = rx, !.w = g.q.w, !.r = g.q.r,
                                !.steps = g.q.steps, !.response = g.s,
                                !.ret = g.ret, !.exc = g.exc]
      /\ UNCHANGED <<port, port_num, baud_rate, read_mode, timeout, write_timeout, leaked>>

\* The instrument sends one more byte, which the open port buffers.
Receive(b) ==
  /\ Idle
  /\ is_open(port)
  /\ Len(rx) < MaxStream
  /\ rx' = Append(rx, b)
  /\ UNCHANGED <<port, port_num, baud_rate, read_mode, timeout, write_timeout, leaked, call>>

\* The caller takes what the call returned or raised, and goes on.
Return ==
  /\ call # NoCall
  /\ call' = NoCall
  /\ UNCHANGED <<port, port_num, baud_rate, read_mode, timeout, write_timeout, rx, leaked>>

Next ==
  \/ Idle /\ \E n \in Ports, outcome \in {"ok"} \cup OpenFaults : OpenPort(n, outcome)
  \/ Idle /\ ClosePort
  \/ Idle /\ \E msg \in Msgs, fault \in {NoExc} \cup WriteFaults : Write(msg, fault)
  \/ Idle /\ \E terminator \in Terminators, max_size \in 1..MaxSize,
                 mode_arg \in ModeArgs, fault \in {NoExc} \cup ReadFaults,
                 at \in 0..Len(rx) :
               Read(terminator, max_size, mode_arg, fault, at)
  \/ Idle /\ \E cmd \in Msgs, wfault \in WriteFaults : Query(cmd, wfault, NoExc, 0)
  \/ Idle /\ \E cmd \in Msgs, rfault \in {NoExc} \cup ReadFaults, at \in 0..Len(rx) :
               Query(cmd, NoExc, rfault, at)
  \/ Idle /\ \E b \in Byte : Receive(b)
  \/ Return

Spec == Init /\ [][Next]_vars

\* The device as a Multimeter: its caller opens and closes the port and
\* measures; the instrument answers with the bytes of DmmByte.
NextDMM ==
  \/ Idle /\ \E address \in Ports, baud \in Bauds, outcome \in {"ok"} \cup OpenFaults :
               NewMultimeter(address, baud, outcome)
  \/ Idle /\ \E n \in Ports, outcome \in {"ok"} \cup OpenFaults : OpenPort(n, outcome)
  \/ Idle /\ ClosePort
  \/ Idle /\ \E scale \in Scales, wfault \in WriteFaults :
               GetDCVolts(scale, wfault, NoExc, 0)
  \/ Idle /\ \E scale \in Scales, rfault \in {NoExc} \cup ReadFaults, at \in 0..Len(rx) :
               GetDCVolts(scale, NoExc, rfault, at)
  \/ Idle /\ \E wfault \in WriteFaults : GetID(wfault, NoExc, 0)
  \/ Idle /\ \E rfault \in {NoExc} \cup ReadFaults, at \in 0..Len(rx) :
               GetID(NoExc, rfault, at)
  \/ Idle /\ \E b \in DmmByte : Receive(b)
  \/ Return

SpecDMM == Init /\ [][NextDMM]_vars


\* ============================================================= claims
\* The port object p is a Serial object whose connection is open (the fact,
\* whatever is_open() answers).
PortIsOpen(p) == p # None /\ p[1].is_open
\* The first n bytes of a stream.
Take(stream, n) == SubSeq(stream, 1, IF n < Len(stream) THEN n ELSE Len(stream))
\* The terminator occurs somewhere in the stream.
Contains(stream, terminator) ==
  \E i \in 1..Len(stream) :
    /\ i + Len(terminator) - 1 <= Len(stream)
    /\ SubSeq(stream, i, i + Len(terminator) - 1) = terminator
\* The terminator a strategy looks for: the built-in readline of strategy 1
\* knows the line feed only.
TerminatorOf(mode, terminator) == IF mode = 1 THEN <<LF>> ELSE terminator
\* A read() that has just returned from an open port whose transport raised
\* nothing during the pass.
ReadDone == call.op = "read" /\ PortIsOpen(call.pre_port) /\ call.r.fault = NoExc

\* C1: for every read strategy, when the stream holds at least max_size
\* bytes and no terminator within its first max_size bytes, the Frame of one
\* read() holds exactly max_size bytes.
C1_FrameIsMaxSize ==
  ( /\ ReadDone
    /\ Len(call.pre_rx) >= call.max_size
    /\ ~Contains(Take(call.pre_rx, call.max_size),
                 TerminatorOf(call.r.mode, call.terminator)) )
  => Len(call.r.frame) = call.max_size

\* C2: for every read strategy, when the buffered stream is text that ends in
\* the configured terminator, holds it nowhere else and is at most max_size
\* long, read() returns the stream without the terminator, and nothing else
\* removed.
C2_ReturnsStreamLessTerminator ==
  ( /\ ReadDone
    /\ Decodable(call.pre_rx)
    /\ Len(call.pre_rx) <= call.max_size
    /\ Len(call.pre_rx) >= Len(call.terminator)
    /\ LastN(call.pre_rx, Len(call.terminator)) = call.terminator
    /\ ~Contains(SubSeq(call.pre_rx, 1, Len(call.pre_rx) - 1), call.terminator) )
  => /\ call.exc = NoExc
     /\ call.ret = Some(Decode(SubSeq(call.pre_rx, 1,
                                      Len(call.pre_rx) - Len(call.terminator))))

\* C3 as stated: write() on an open port returns normally whatever
\* port.write() raises.
C3_WriteSwallowsFaults ==
  (call.op = "write" /\ PortIsOpen(call.pre_port)) => call.exc = NoExc

\* C3 as amended: write() on an open port calls port.write() once; what
\* port.write() raises escapes to the caller unchanged, otherwise the encoded
\* message was sent and write() returns normally; the port object is the
\* same after the call either way.
C3_WriteReraisesFaults ==
  (call.op = "write" /\ PortIsOpen(call.pre_port))
  => /\ call.w.io = <<"write">>
     /\ call.exc = call.w.fault
     /\ call.w.fault = NoExc => call.w.written = Encode(call.msg)
     /\ port = call.pre_port

C3_Witness ==
  /\ call.op = "write"
  /\ PortIsOpen(call.pre_port)
  /\ call.w.fault = "SerialException"
  /\ call.exc = "SerialException"

\* C4: when the transport raises a serial fault during a read pass, before
\* the first byte or after some bytes, read() returns None and raises
\* nothing: the bytes accumulated before the fault are not returned.
C4_ReadFaultGivesNone ==
  (call.op = "read" /\ IsSerialException(call.r.fault))
  => (call.ret = None /\ call.exc = NoExc)

C4_Witness ==
  /\ call.op = "read"
  /\ IsSerialException(call.r.fault)
  /\ Decodable(call.r.frame)
  /\ Strip(Decode(call.r.frame)) # <<>>
  /\ call.ret = None

\* C5: read() returns None and raises nothing when the Frame is not text.
C5_UndecodableGivesNone ==
  (ReadDone /\ ~Decodable(call.r.frame))
  => (call.ret = None /\ call.exc = NoExc)

\* The connections created by the device that are open: those it dropped
\* while open, and the one it holds.
OpenConnections == leaked + (IF PortIsOpen(port) THEN 1 ELSE 0)

\* C6: on a port that is not open (never opened, or closed), write() and
\* read() call no primitive of the port and raise nothing, read() returns
\* None, and is_open() is false before and after the call.
C6_ClosedPortNoIO ==
  (call.op \in {"write", "read"} /\ ~PortIsOpen(call.pre_port))
  => /\ call.w.io = <<>>
     /\ call.r.io = <<>>
     /\ call.exc = NoExc
     /\ call.ret = None
     /\ ~is_open(call.pre_port)
     /\ ~is_open(port)
     /\ ~PortIsOpen(port)

C6_Witness ==
  /\ call.op = "write"
  /\ call.pre_port # None
  /\ ~PortIsOpen(call.pre_port)
  /\ call.w.io = <<>>

\* C7: at most one connection created by the device is open, after any
\* sequence of calls; after a successful open_port on a device that was
\* open, the earlier connection is closed, is_open() is true, and the open
\* connection has the port number and the configuration of this call.
C7_OneConnection ==
  /\ OpenConnections <= 1
  /\ (call.op = "open_port" /\ call.exc = NoExc)
     => /\ leaked = 0
        /\ is_open(port)
        /\ PortIsOpen(port)
        /\ port[1].port = call.n[1]
        /\ port[1].baudrate = baud_rate

C7_Witness ==
  /\ call.op = "open_port"
  /\ call.exc = NoExc
  /\ PortIsOpen(call.pre_port)
  /\ PortIsOpen(port)
  /\ port[1].port # call.pre_port[1].port
  /\ OpenConnections = 1

C9_FailedOpenLeavesClosed ==
  (call.op = "open_port" /\ call.fault # "ok")
  => /\ call.exc = call.fault
     /\ ~is_open(port)
     /\ ~PortIsOpen(port)
     /\ OpenConnections = 0

C9_Witness ==
  /\ call.op = "open_port"
  /\ call.exc \in OpenFaults
  /\ PortIsOpen(call.pre_port)
  /\ ~PortIsOpen(port)

\* C10 as stated: every query(cmd) makes one write, then one settle delay,
\* then one read, and returns what read() returned.
C10_QueryWriteSleepRead ==
  call.op = "query"
  => /\ call.steps = <<"write", "sleep", "read">>
     /\ call.exc = NoExc
     /\ call.ret = call.r.ret

\* C10 as amended: every query(cmd) makes exactly one write; when the write
\* raises nothing, exactly one settle delay and then exactly one read follow,
\* and query returns what read() returned, or raises what read() raised; when
\* port.write() raises, neither delay nor read follows, and query returns ""
\* for a serial fault and raises any other exception again.
C10_QueryOneAttempt ==
  call.op = "query"
  => /\ call.w.fault = NoExc
        => /\ call.steps = <<"write", "sleep", "read">>
           /\ call.exc = call.r.exc
           /\ call.r.exc = NoExc => call.ret = call.r.ret
     /\ call.w.fault # NoExc
        => /\ call.steps = <<"write">>
           /\ call.r = NoRead
           /\ IF IsSerialException(call.w.fault)
              THEN call.ret = Some(<<>>) /\ call.exc = NoExc
              ELSE call.exc = call.w.fault

C10_Witness ==
  /\ call.op = "query"
  /\ call.steps = <<"write", "sleep", "read">>
  /\ call.w.io = <<"write">>
  /\ call.ret = call.r.ret
  /\ call.ret # None
  /\ call.ret # Some(<<>>)

\* C11: query() never lets a serial fault (SerialException, write timeout,
\* port not open) escape, whether port.write() raised it or a primitive of
\* the reading pass did: it returns "" or None.
C11_QueryAbsorbsSerialFaults ==
  ( /\ call.op = "query"
    /\ PortIsOpen(call.pre_port)
    /\ IsSerialException(call.w.fault) \/ IsSerialException(call.r.fault) )
  => /\ call.exc = NoExc
     /\ call.ret \in {None, Some(<<>>)}

C11_Witness ==
  /\ call.op = "query"
  /\ PortIsOpen(call.pre_port)
  /\ call.w.fault = "SerialTimeoutException"
  /\ call.steps = <<"write">>
  /\ call.exc = NoExc

\* A query() whose reading pass was cut by a serial fault after it had
\* taken bytes.
C11_WitnessReadPhase ==
  /\ call.op = "query"
  /\ PortIsOpen(call.pre_port)
  /\ call.r.fault = "SerialException"
  /\ call.r.frame # <<>>
  /\ call.ret = None
  /\ call.exc = NoExc

\* An exception that is no serial fault: a programming or environment error.
IsForeignFault(e) == e # NoExc /\ ~IsSerialException(e)

\* C12: what a primitive of the port raises during read(), write() or
\* query() that is no serial fault (an AttributeError, say) escapes to the
\* caller: it is never turned into a returned None or "".
C12_ForeignFaultPropagates ==
  /\ ( /\ call.op \in {"write", "query"}
       /\ PortIsOpen(call.pre_port)
       /\ IsForeignFault(call.w.fault) )
     => call.exc = call.w.fault
  /\ ( /\ call.op \in {"read", "query"}
       /\ PortIsOpen(call.pre_port)
       /\ IsForeignFault(call.r.fault) )
     => call.exc = call.r.fault

\* A read() or a query() that failed: the port was not open, or the
\* transport raised a serial fault in the write or in the reading pass.
CallFailed ==
  /\ call.op \in {"read", "query"}
  /\ \/ ~PortIsOpen(call.pre_port)
     \/ IsSerialException(call.w.fault)
     \/ IsSerialException(call.r.fault)

\* C13: a read() or a query() that failed returns None, never the "" that a
\* successful read of a bare terminator returns.
C13_FailureIsAbsent ==
  CallFailed => (call.exc = NoExc /\ call.ret = None)

\* A read() whose pass ran out of bytes: the port raised nothing, and what
\* it had buffered was shorter than max_size and held no terminator, so the
\* pass ended on the read timeout (strategies 1 to 3) or on inWaiting() = 0
\* (strategy 4).
PassRanDry ==
  /\ ReadDone
  /\ Len(call.pre_rx) < call.max_size
  /\ ~Contains(call.pre_rx, TerminatorOf(call.r.mode, call.terminator))

\* C14: for every read strategy, when the transport delivers no further byte
\* before the read timeout and raises nothing, read() returns the text of
\* the bytes taken so far in the pass, all that was buffered ("" when
\* nothing was), and no exception escapes.  The text of a Frame is what
\* read() makes of it: decoded, with leading and trailing CR and LF removed.
C14_TimeoutReturnsAccumulated ==
  PassRanDry
  => /\ call.exc = NoExc
     /\ call.r.frame = call.pre_rx
     /\ call.r.rx = <<>>
     /\ call.ret = Some(Strip(Decode(call.pre_rx)))

\* A response string that is no number: empty, or with a character that is
\* no digit.
NotANumber(text) == text = <<>> \/ \E i \in 1..Len(text) : text[i] # "1"

\* C15: get_DCVolts() returns None and raises nothing whenever the string
\* that query() returned is not a number.
C15_UnparseableGivesNone ==
  ( /\ call.op = "get_DCVolts"
    /\ call.response # None
    /\ NotANumber(call.response[1]) )
  => (call.ret = None /\ call.exc = NoExc)

C15_Witness ==
  /\ call.op = "get_DCVolts"
  /\ PortIsOpen(call.pre_port)
  /\ call.w.fault = NoExc
  /\ call.response # None
  /\ call.response # Some(<<>>)
  /\ NotANumber(call.response[1])
  /\ call.ret = None
  /\ call.exc = NoExc

\* A get_DCVolts() whose response was a number returned its value.
C15_WitnessNumber ==
  /\ call.op = "get_DCVolts"
  /\ call.pre_rx = <<49, CR, LF>>
  /\ call.response = Some(<<"1">>)
  /\ call.ret = Some(1)
  /\ call.exc = NoExc

\* C16: the string read() returns never ends with a carriage return or a
\* line feed, whatever the strategy, the terminator and the way the pass
\* ended (terminator found, max_size reached, no more bytes).
C16_NoTrailingCRLF ==
  (call.op = "read" /\ call.ret # None)
  => \/ call.ret[1] = <<>>
     \/ call.ret[1][Len(call.ret[1])] \notin {"\r", "\n"}

\* A pass that ended at max_size in the middle of the terminator CR LF:
\* the Frame ends with the carriage return and the string does not.
C16_Witness ==
  /\ call.op = "read"
  /\ call.r.mode \in {3, 4}
  /\ call.terminator = <<CR, LF>>
  /\ call.r.frame = <<59, CR>>
  /\ call.r.rx # <<>>
  /\ call.ret = Some(<<";">>)

\* The number of port.read(1) calls in a list of primitives.
RECURSIVE Reads(_)
Reads(io) ==
  IF io = <<>> THEN 0
  ELSE (IF Head(io) = "read" THEN 1 ELSE 0) + Reads(Tail(io))
\* Every port.read(1) directly follows an inWaiting().
PollsBeforeEachRead(io) ==
  \A i \in 1..Len(io) : io[i] = "read" => (i > 1 /\ io[i - 1] = "inWaiting")
\* The Frame of the call ends with the terminator of the call.
FrameEndsWithTerminator ==
  /\ Len(call.r.frame) >= Len(call.terminator)
  /\ LastN(call.r.frame, Len(call.terminator)) = call.terminator

\* C17 as stated: under strategies 3 and 4 a byte is read only after the
\* port reported a buffered byte, and no read waits for the timeout on an
\* empty buffer: every read of the pass brought a byte.
C17_PollingReads ==
  (ReadDone /\ call.r.mode \in {3, 4})
  => /\ PollsBeforeEachRead(call.r.io)
     /\ Reads(call.r.io) = Len(call.r.frame)

\* C17 as amended: strategy 4 (_readline) asks inWaiting() before every
\* read, every read brings a byte, and the pass ends on the first
\* inWaiting() that reports none unless the terminator or the size limit
\* ended it before.  Strategy 3 (_read_until) never asks: it calls
\* port.read(1) only, and when the buffer runs out before the terminator
\* and before max_size bytes, its last read waits for the read timeout and
\* brings nothing.
C17_OnlyReadlinePolls ==
  /\ (ReadDone /\ call.r.mode = 4)
     => /\ PollsBeforeEachRead(call.r.io)
        /\ Reads(call.r.io) = Len(call.r.frame)
        /\ call.r.io # <<>>
        /\ (~FrameEndsWithTerminator /\ Len(call.r.frame) <= call.max_size)
           => /\ call.r.io[Len(call.r.io)] = "inWaiting"
              /\ call.r.rx = <<>>
  /\ (ReadDone /\ call.r.mode = 3)
     => /\ \A i \in 1..Len(call.r.io) : call.r.io[i] = "read"
        /\ Reads(call.r.io) =
             Len(call.r.frame)
             + (IF ~FrameEndsWithTerminator /\ Len(call.r.frame) < call.max_size
                THEN 1 ELSE 0)

\* A pass of strategy 4 that took a byte and ended on inWaiting() = 0.
C17_Witness ==
  /\ ReadDone
  /\ call.r.mode = 4
  /\ call.r.io = <<"inWaiting", "read", "inWaiting">>
  /\ call.r.frame = call.pre_rx
  /\ call.max_size > 1

\* A pass of strategy 3 that took a byte and then waited for the timeout.
C17_WitnessBlocking ==
  /\ ReadDone
  /\ call.r.mode = 3
  /\ call.r.io = <<"read", "read">>
  /\ Len(call.r.frame) = 1

\* C18: a pass of _read_until or _readline makes at most max_size + 1
\* byte reads and takes at most max_size + 1 bytes, however many bytes
\* without a terminator the port has to give; a pass of the two built-in
\* strategies takes at most max_size bytes.
C18_BoundedReads ==
  (call.op = "read" /\ PortIsOpen(call.pre_port))
  => /\ Len(call.r.frame) <= call.max_size + 1
     /\ call.r.mode \in {3, 4} => Reads(call.r.io) <= call.max_size + 1
     /\ call.r.mode \in {1, 2} => Len(call.r.frame) <= call.max_size

\* A pass over a stream without terminator that is longer than the pass may
\* take: it made max_size + 1 reads and left the rest buffered.
C18_Witness ==
  /\ ReadDone
  /\ call.r.mode = 4
  /\ ~Contains(call.pre_rx, call.terminator)
  /\ Len(call.pre_rx) > call.max_size + 1
  /\ Reads(call.r.io) = call.max_size + 1
  /\ call.r.rx # <<>>

\* The same stream under strategy 3: max_size reads.
C18_WitnessReadUntil ==
  /\ ReadDone
  /\ call.r.mode = 3
  /\ ~Contains(call.pre_rx, call.terminator)
  /\ Len(call.pre_rx) > call.max_size
  /\ Reads(call.r.io) = call.max_size
  /\ call.r.rx # <<>>

\* C19: a pass of _read_until or _readline that no fault cut takes from
\* the port exactly the bytes of its Frame, in order: what was buffered is
\* the Frame followed by what is still buffered.  The Frame holds the
\* terminator at its end or not at all, so the pass stopped at the first
\* terminator and every later byte is left for the next read(); and the
\* string returned is the text of the whole Frame.
C19_ConsumesExactlyFrame ==
  (ReadDone /\ call.r.mode \in {3, 4})
  => /\ call.pre_rx = call.r.frame \o call.r.rx
     /\ rx = call.r.rx
     /\ Len(call.r.frame) > 0
        => ~Contains(SubSeq(call.r.frame, 1, Len(call.r.frame) - 1), call.terminator)
     /\ Decodable(call.r.frame)
        => (call.exc = NoExc /\ call.ret = Some(Strip(Decode(call.r.frame))))

\* The first of two reads of the stream ';' LF ';': it returns ";" and
\* leaves the second ';' buffered for the next read.
C19_Witness ==
  /\ ReadDone
  /\ call.r.mode \in {3, 4}
  /\ call.terminator = <<LF>>
  /\ call.pre_rx = <<59, LF, 59>>
  /\ call.r.frame = <<59, LF>>
  /\ rx = <<59>>
  /\ call.ret = Some(<<";">>)

\* C20: write() and read() leave the handle as it was: the port object, the
\* port number, the baud rate, the two timeouts and the configured read_mode
\* are the same after every such call as before it, whether it succeeded,
\* returned None or let an exception escape; and a read() without a mode
\* argument uses the configured read_mode, whatever mode earlier calls asked
\* for.
C20_HandleUnchanged ==
  /\ [][ call'.op \in {"write", "read"}
         => /\ port' = port
            /\ port_num' = port_num
            /\ baud_rate' = baud_rate
            /\ timeout' = timeout
            /\ write_timeout' = write_timeout
            /\ read_mode' = read_mode ]_vars
  /\ []( (call.op = "read" /\ call.mode = None /\ PortIsOpen(call.pre_port))
         => (call.r.mode = read_mode /\ read_mode = DefaultReadMode) )

\* A read() on an open port with a mode argument other than the configured
\* strategy, which took bytes.
C20_Witness ==
  /\ call.op = "read"
  /\ PortIsOpen(call.pre_port)
  /\ call.mode = Some(3)
  /\ call.r.mode = 3
  /\ call.r.frame # <<>>
  /\ read_mode = DefaultReadMode
  /\ port = call.pre_port

\* A write() and a read() that let an exception escape.
C20_WitnessRaised ==
  /\ call.op \in {"write", "read"}
  /\ call.exc # NoExc
  /\ port = call.pre_port

\* A get_ID() or get_DCVolts() whose query() returned None: neither the
\* write nor the read let an exception escape, and read() returned None
\* (the port was not open, or read() caught a fault of the pass).
QueryGaveNone ==
  /\ call.op \in {"get_ID", "get_DCVolts"}
  /\ call.w.exc = NoExc
  /\ call.r.exc = NoExc
  /\ call.response = None

\* C21: when query() returns None (port not open, or read() returned None
\* after a read fault), get_ID() and get_DCVolts() return None and raise
\* nothing.
C21_AbsentQueryGivesNone ==
  QueryGaveNone => (call.ret = None /\ call.exc = NoExc)

\* C22: Multimeter(address, baud) opens the port of that address at that
\* baud rate: when serial.Serial(...) can acquire the port, the constructor
\* returns a device whose is_open() is true; and the only exceptions that
\* escape it are those serial.Serial(...) raised in open_port.
C22_ConstructorOpens ==
  call.op = "Multimeter"
  => /\ call.fault = "ok"
        => /\ call.exc = NoExc
           /\ is_open(port)
           /\ PortIsOpen(port)
           /\ port[1].port = call.n[1]
           /\ port[1].baudrate = call.baud[1]
     /\ call.exc # NoExc
        => (call.exc \in OpenFaults /\ call.exc = call.fault)

=============================================================================
